---- MODULE Spec2Model ----
(***************************************************************************)
(* Model of thriftrw/spec/service.py: compilation of service and function  *)
(* AST nodes into ServiceSpec / FunctionSpec objects, and the flag-guarded *)
(* link pass that resolves parents and builds the service classes.         *)
(***************************************************************************)
EXTENDS Integers, Sequences, FiniteSets, TLC

\* Python's None, where the other values of the slot are strings.
None == "None"
\* Python's None, where the other values of the slot are objects.
NoneObj == [kind |-> "None"]

(***************************************************************************)
(* Bounds of the model.                                                    *)
(***************************************************************************)
\* Number of services declared in a schema that is linked.
NumServices == 2
\* Longest function list of a service that is compiled.
MaxFuncs == 2
\* Longest exception list of a function that is compiled.
MaxExcs == 2

(***************************************************************************)
(* Universes the inputs are drawn from.                                    *)
(***************************************************************************)
AllServiceNames == <<"A", "B", "C", "D", "E">>
ServiceNames == {AllServiceNames[i] : i \in 1..NumServices}

\* "service_spec" is a legal Thrift identifier; it is also the attribute
\* under which service_cls stores the back-reference to the spec.
FuncNames == {"f", "g"}

\* A parent name that no service of the schema declares.
Undeclared == "Z"

\* Type references: a primitive, a type declared in the scope, and a name
\* that no declaration of the schema introduces.
PrimitiveTypes == {"i32"}
DeclaredTypes == {"Pong"}
TypeNames == PrimitiveTypes \cup DeclaredTypes \cup {"Ghost"}

\* thriftrw.idl.Field nodes used as exceptions.
ExcFields == { [id |-> 1, name |-> "notFound", type |-> "Pong"],
               [id |-> 2, name |-> "denied", type |-> "Pong"] }

SeqsUpTo(S, n) == UNION { [1..k -> S] : k \in 0..n }

\* thriftrw.idl.Function nodes.
FunctionAST(names, rets, params, excs) ==
    [ name : names, oneway : BOOLEAN, return_type : rets,
      parameters : params, exceptions : excs ]

\* thriftrw.idl.Service nodes.
ServiceAST(n, parents, funcs, maxf) ==
    [ name : {n}, parent : parents, functions : SeqsUpTo(funcs, maxf) ]

(***************************************************************************)
(* Collaborators outside service.py.                                       *)
(***************************************************************************)
\* spec_mapper.type_spec_or_ref: an AST type becomes a reference by name.
type_spec_or_ref(t) == [ref |-> t]

\* FieldSpec.compile: the field keeps the id and the name of the AST node.
FieldSpec_compile(field, struct_name, require_requiredness) ==
    [ id |-> field.id, name |-> field.name,
      spec |-> type_spec_or_ref(field.type),
      required |-> FALSE, default_value |-> None ]

\* StructTypeSpec / UnionTypeSpec .link: flag-guarded; resolves the type
\* reference of every field in the scope, then attaches the surface.
TypeSpec_link(tspec) ==
    IF tspec.linked THEN [spec |-> tspec, err |-> None]
    ELSE IF \E i \in 1..Len(tspec.fields) :
                tspec.fields[i].spec.ref \notin PrimitiveTypes \cup DeclaredTypes
         THEN [spec |-> [tspec EXCEPT !.linked = TRUE], err |-> "UnknownType"]
         ELSE [spec |-> [tspec EXCEPT !.linked = TRUE,
                                      !.surface = [kind |-> "class",
                                                   name |-> tspec.name]],
               err |-> None]

(***************************************************************************)
(* Compilation.                                                            *)
(***************************************************************************)
\* '%s_%s_request' % (service_name, function_name)
args_name(service_name, function_name) ==
    <<service_name, "_", function_name, "_request">>

\* '%s_%s_response' % (service_name, function_name)
result_name(service_name, function_name) ==
    <<service_name, "_", function_name, "_response">>

FunctionArgsSpec_compile(parameters, service_name, function_name) ==
    [ name |-> args_name(service_name, function_name),
      fields |-> [ i \in 1..Len(parameters) |->
                     FieldSpec_compile(parameters[i],
                                       args_name(service_name, function_name),
                                       FALSE) ],
      allow_empty |-> FALSE,
      linked |-> FALSE, surface |-> NoneObj ]

\* FunctionResultSpec.compile appending the success field after the
\* exceptions instead of before them.
FunctionResultSpec_compile_success_last(return_type, exceptions, service_name, function_name) ==
    LET success == IF return_type # None
                   THEN << [ id |-> 0, name |-> "success",
                             spec |-> type_spec_or_ref(return_type),
                             required |-> FALSE, default_value |-> None ] >>
                   ELSE << >>
        excs == [ i \in 1..Len(exceptions) |->
                    FieldSpec_compile(exceptions[i],
                                      result_name(service_name, function_name),
                                      FALSE) ]
    IN [ name |-> result_name(service_name, function_name),
         fields |-> excs \o success,
         allow_empty |-> TRUE,
         linked |-> FALSE, surface |-> NoneObj ]

\* exceptions is the list after "exceptions = exceptions or []": a function
\* without exceptions has the empty list.
FunctionResultSpec_compile(return_type, exceptions, service_name, function_name) ==
    LET success == IF return_type # None
                   THEN << [ id |-> 0, name |-> "success",
                             spec |-> type_spec_or_ref(return_type),
                             required |-> FALSE, default_value |-> None ] >>
                   ELSE << >>
        excs == [ i \in 1..Len(exceptions) |->
                    FieldSpec_compile(exceptions[i],
                                      result_name(service_name, function_name),
                                      FALSE) ]
    IN [ name |-> result_name(service_name, function_name),
         fields |-> success \o excs,
         allow_empty |-> TRUE,
         linked |-> FALSE, surface |-> NoneObj ]

\* FunctionSpec.compile without the oneway check.
FunctionSpec_compile_oneway_ok(func, service_name) ==
    [ err |-> None,
      spec |-> [ name |-> func.name,
                 args_spec |-> FunctionArgsSpec_compile(
                                   func.parameters, service_name, func.name),
                 result_spec |-> FunctionResultSpec_compile(
                                   func.return_type, func.exceptions,
                                   service_name, func.name),
                 linked |-> FALSE, surface |-> NoneObj ] ]

\* The outcome of a call: err is None when it returned normally, and then
\* spec is what it returned; otherwise err is the error raised.
FunctionSpec_compile(func, service_name) ==
    IF func.oneway
    THEN [ err |-> "OnewayUnsupported", spec |-> NoneObj ]
    ELSE [ err |-> None,
           spec |-> [ name |-> func.name,
                      args_spec |-> FunctionArgsSpec_compile(
                                        func.parameters, service_name, func.name),
                      result_spec |-> FunctionResultSpec_compile(
                                        func.return_type, func.exceptions,
                                        service_name, func.name),
                      linked |-> FALSE, surface |-> NoneObj ] ]

\* ServiceSpec.parent as compile leaves it: None, or the parent's name.
parent_name(p) == IF p = None THEN NoneObj ELSE [kind |-> "name", name |-> p]
\* ServiceSpec.parent as link leaves it: the ServiceSpec object registered
\* in the scope under that name.
parent_spec(p) == [kind |-> "spec", name |-> p]

\* The loop of ServiceSpec.compile from function i on; names and functions
\* are the loop's locals.  On an error, functions is what had been built.
RECURSIVE compile_loop(_, _, _, _)
compile_loop(service, i, names, functions) ==
    IF i > Len(service.functions)
    THEN [ err |-> None,
           spec |-> [ name |-> service.name, functions |-> functions,
                      parent |-> parent_name(service.parent),
                      linked |-> FALSE, surface |-> NoneObj ],
           built |-> functions ]
    ELSE LET func == service.functions[i] IN
         IF func.name \in names
         THEN [ err |-> "DuplicateName", spec |-> NoneObj, built |-> functions ]
         ELSE LET fc == FunctionSpec_compile(func, service.name) IN
              IF fc.err # None
              THEN [ err |-> fc.err, spec |-> NoneObj, built |-> functions ]
              ELSE compile_loop(service, i + 1, names \cup {func.name},
                                Append(functions, fc.spec))

\* ServiceSpec.compile whose loop never records a name in names.
RECURSIVE compile_loop_noadd(_, _, _, _)
compile_loop_noadd(service, i, names, functions) ==
    IF i > Len(service.functions)
    THEN [ err |-> None,
           spec |-> [ name |-> service.name, functions |-> functions,
                      parent |-> parent_name(service.parent),
                      linked |-> FALSE, surface |-> NoneObj ],
           built |-> functions ]
    ELSE LET func == service.functions[i] IN
         IF func.name \in names
         THEN [ err |-> "DuplicateName", spec |-> NoneObj, built |-> functions ]
         ELSE LET fc == FunctionSpec_compile(func, service.name) IN
              IF fc.err # None
              THEN [ err |-> fc.err, spec |-> NoneObj, built |-> functions ]
              ELSE compile_loop_noadd(service, i + 1, names,
                                      Append(functions, fc.spec))

ServiceSpec_compile_noadd(service) == compile_loop_noadd(service, 1, {}, << >>)

ServiceSpec_compile(service) == compile_loop(service, 1, {}, << >>)

(***************************************************************************)
(* Linking.  specs is scope.service_specs: the ServiceSpec objects by      *)
(* name.  A call gives back the objects as it leaves them and the error it *)
(* raised (None when it returned normally).                                *)
(***************************************************************************)
ServiceFunction(name, request, response) ==
    [ kind |-> "ServiceFunction", name |-> name,
      request |-> request, response |-> response ]

FunctionSpec_link(fn) ==
    IF fn.linked THEN [spec |-> fn, err |-> None]
    ELSE LET a == TypeSpec_link(fn.args_spec)
             f1 == [fn EXCEPT !.linked = TRUE, !.args_spec = a.spec]
         IN IF a.err # None THEN [spec |-> f1, err |-> a.err]
            ELSE LET r == TypeSpec_link(fn.result_spec)
                     f2 == [f1 EXCEPT !.result_spec = r.spec]
                 IN IF r.err # None THEN [spec |-> f2, err |-> r.err]
                    ELSE [ spec |-> [f2 EXCEPT !.surface =
                                        ServiceFunction(fn.name, a.spec.surface,
                                                        r.spec.surface)],
                           err |-> None ]

\* [func.link(scope) for func in self.functions], from function i on.  The
\* FunctionSpec objects are linked in place, so the ones before a failing
\* function stay linked.
RECURSIVE link_functions(_, _, _)
link_functions(specs, s, i) ==
    IF i > Len(specs[s].functions) THEN [specs |-> specs, err |-> None]
    ELSE LET r == FunctionSpec_link(specs[s].functions[i])
             s1 == [specs EXCEPT ![s].functions[i] = r.spec]
         IN IF r.err # None THEN [specs |-> s1, err |-> r.err]
            ELSE link_functions(s1, s, i + 1)

\* service_dct as the loop over service_spec.functions fills it.
RECURSIVE function_dct(_, _)
function_dct(functions, n) ==
    IF n = 0 THEN [a \in {} |-> NoneObj]
    ELSE LET d == function_dct(functions, n - 1)
             f == functions[n]
         IN [a \in DOMAIN d \cup {f.name} |->
                IF a = f.name THEN f.surface ELSE d[a]]

\* service_cls taking object for the base when the parent has no surface.
service_cls_object_base(specs, s) ==
    LET spec == specs[s]
        parent_cls == IF spec.parent = NoneObj
                         \/ specs[spec.parent.name].surface = NoneObj
                      THEN [kind |-> "object"]
                      ELSE specs[spec.parent.name].surface
        d == function_dct(spec.functions, Len(spec.functions))
        service_dct == [a \in DOMAIN d \cup {"service_spec", "__slots__"} |->
                          IF a = "service_spec" THEN [kind |-> "spec", name |-> s]
                          ELSE IF a = "__slots__" THEN [kind |-> "tuple"]
                          ELSE d[a]]
    IN [cls |-> [kind |-> "class", name |-> spec.name,
                 base |-> parent_cls, dct |-> service_dct],
        err |-> None]

\* service_cls: type(name, (parent_cls,), service_dct).  type() raises
\* TypeError when the base is None, the surface of a parent that has none.
service_cls(specs, s) ==
    LET spec == specs[s]
        parent_cls == IF spec.parent = NoneObj THEN [kind |-> "object"]
                      ELSE specs[spec.parent.name].surface
        d == function_dct(spec.functions, Len(spec.functions))
        service_dct == [a \in DOMAIN d \cup {"service_spec", "__slots__"} |->
                          IF a = "service_spec" THEN [kind |-> "spec", name |-> s]
                          ELSE IF a = "__slots__" THEN [kind |-> "tuple"]
                          ELSE d[a]]
    IN IF parent_cls = NoneObj
       THEN [cls |-> NoneObj, err |-> "TypeError"]
       ELSE [cls |-> [kind |-> "class", name |-> spec.name,
                      base |-> parent_cls, dct |-> service_dct],
             err |-> None]

RECURSIVE ServiceSpec_link(_, _)

\* The body of ServiceSpec.link under "if not self.linked".
link_unlinked(specs, s) ==
    LET s1 == [specs EXCEPT ![s].linked = TRUE]
        p == specs[s].parent
    IN IF p # NoneObj /\ p.name \notin DOMAIN specs
       THEN [specs |-> s1, err |-> "UnknownReference"]
       ELSE LET r == IF p = NoneObj THEN [specs |-> s1, err |-> None]
                     ELSE ServiceSpec_link(s1, p.name)
            IN IF r.err # None THEN r
               ELSE LET s2 == IF p = NoneObj THEN r.specs
                              ELSE [r.specs EXCEPT
                                      ![s].parent = parent_spec(p.name)]
                        fl == link_functions(s2, s, 1)
                    IN IF fl.err # None THEN fl
                       ELSE LET c == service_cls(fl.specs, s)
                            IN IF c.err # None
                               THEN [specs |-> fl.specs, err |-> c.err]
                               ELSE [specs |-> [fl.specs EXCEPT
                                                  ![s].surface = c.cls],
                                     err |-> None]

\* ServiceSpec.link with the parent looked up only when it is a key of the
\* scope: an unknown parent is taken for no parent.
ServiceSpec_link_lenient(specs, s) ==
    IF specs[s].linked THEN [specs |-> specs, err |-> None]
    ELSE IF specs[s].parent # NoneObj /\ specs[s].parent.name \notin DOMAIN specs
         THEN link_unlinked([specs EXCEPT ![s].parent = NoneObj], s)
         ELSE link_unlinked(specs, s)

\* ServiceSpec.link whose guard lets a linked spec with a parent through:
\* the parent, by then a ServiceSpec object, is no key of the scope.
ServiceSpec_link_unguarded(specs, s) ==
    IF specs[s].linked
    THEN IF specs[s].parent = NoneObj THEN [specs |-> specs, err |-> None]
         ELSE [specs |-> specs, err |-> "UnknownReference"]
    ELSE link_unlinked(specs, s)

ServiceSpec_link(specs, s) ==
    IF specs[s].linked THEN [specs |-> specs, err |-> None]
    ELSE link_unlinked(specs, s)

\* getattr(cls, attr) on a service class: the class's own attributes first,
\* then those of its base.
RECURSIVE getattr(_, _)
getattr(cls, attr) ==
    IF cls.kind # "class" THEN [kind |-> "AttributeError"]
    ELSE IF attr \in DOMAIN cls.dct THEN cls.dct[attr]
    ELSE getattr(cls.base, attr)

(***************************************************************************)
(* The program: a schema is compiled service by service into the scope,    *)
(* then specs of the scope are linked, in any order and any number of      *)
(* times.                                                                  *)
(***************************************************************************)
VARIABLES
    schema,          \* the thriftrw.idl.Service nodes, by name
    func,            \* the thriftrw.idl.Function node compiled on its own
    service_specs,   \* scope.service_specs
    phase,           \* "compile" until the first link call, then "link"
    last             \* the latest call and how it ended

vars == <<schema, func, service_specs, phase, last>>

NoCall == [op |-> "none"]

\* Functions of the schemas that are linked: plain ones, one that takes the
\* name of the back-reference attribute, one whose parameter has a type no
\* declaration introduces.
Param(t) == << [id |-> 1, name |-> "name", type |-> t] >>
Plain(name) == [ name |-> name, oneway |-> FALSE, return_type |-> None,
                 parameters |-> Param("i32"), exceptions |-> << >> ]
Ghost(name) == [ name |-> name, oneway |-> FALSE, return_type |-> "Pong",
                 parameters |-> Param("Ghost"), exceptions |-> << >> ]
LinkFuncLists ==
    { << >>, <<Plain("f")>>, <<Plain("g")>>, <<Plain("service_spec")>>,
      <<Ghost("f")>> }

LinkSchemas ==
    { sch \in [ServiceNames ->
                 [ name : ServiceNames,
                   parent : {None, Undeclared} \cup ServiceNames,
                   functions : LinkFuncLists ]] :
        \A n \in ServiceNames : sch[n].name = n }

\* The services whose FunctionSpec objects are also linked directly, not
\* only through their ServiceSpec.
DirectTargets == {AllServiceNames[1]}

\* The state after the compile pass: every service of the schema has been
\* compiled and registered in the scope under its name.
Init ==
    /\ schema \in LinkSchemas
    /\ func = Plain("f")
    /\ service_specs = [n \in ServiceNames |-> ServiceSpec_compile(schema[n]).spec]
    /\ phase = "link"
    /\ last = NoCall

\* spec.link(scope) on a ServiceSpec of the scope.
LinkService(n) ==
    /\ phase = "link"
    /\ n \in DOMAIN service_specs
    /\ LET r == ServiceSpec_link(service_specs, n)
       IN /\ service_specs' = r.specs
          /\ last' = [op |-> "ServiceSpec.link", target |-> n, err |-> r.err,
                      was_linked |-> service_specs[n].linked,
                      changed |-> r.specs # service_specs,
                      surface_before |-> service_specs[n].surface,
                      returned |-> r.specs[n]]
    /\ UNCHANGED <<schema, func, phase>>

\* spec.link(scope) on FunctionSpec i of a ServiceSpec of the scope.
LinkFunction(n, i) ==
    /\ phase = "link"
    /\ n \in DOMAIN service_specs
    /\ i \in 1..Len(service_specs[n].functions)
    /\ LET r == FunctionSpec_link(service_specs[n].functions[i])
       IN /\ service_specs' = [service_specs EXCEPT ![n].functions[i] = r.spec]
          /\ last' = [op |-> "FunctionSpec.link", target |-> n, index |-> i,
                      err |-> r.err,
                      was_linked |-> service_specs[n].functions[i].linked,
                      changed |-> r.spec # service_specs[n].functions[i],
                      surface_before |-> service_specs[n].functions[i].surface,
                      returned |-> r.spec]
    /\ UNCHANGED <<schema, func, phase>>

Next ==
    \/ \E n \in ServiceNames : LinkService(n)
    \/ \E n \in DirectTargets : \E i \in 1..MaxFuncs : LinkFunction(n, i)

Spec == Init /\ [][Next]_vars

\* The link pass as the compiler runs it, on a schema whose type references
\* all resolve: link is called on ServiceSpec objects only, which link their
\* FunctionSpec objects themselves.
Resolves(f) ==
    /\ \A i \in 1..Len(f.parameters) :
          f.parameters[i].type \in PrimitiveTypes \cup DeclaredTypes
    /\ f.return_type \in {None} \cup PrimitiveTypes \cup DeclaredTypes

InitServices ==
    /\ Init
    /\ \A n \in ServiceNames : \A i \in 1..Len(schema[n].functions) :
          Resolves(schema[n].functions[i])

NextServices == \E n \in ServiceNames : LinkService(n)

SpecServices == InitServices /\ [][NextServices]_vars

(***************************************************************************)
(* The compile pass alone, on one service of the schema.                   *)
(***************************************************************************)
\* Functions without exceptions, for the function lists of a service.
ListFuncs == FunctionAST(FuncNames, {None, "i32"}, {Param("i32")}, {<< >>})
\* Functions with exceptions, for FunctionSpec.compile.
CompileFuncs == FunctionAST(FuncNames, {None, "i32"}, {Param("i32")},
                            SeqsUpTo(ExcFields, MaxExcs))

InitCompile ==
    /\ schema \in [{"A"} -> ServiceAST("A", {None, "B"}, ListFuncs, MaxFuncs)]
    /\ func \in CompileFuncs
    /\ service_specs = [n \in {} |-> NoneObj]
    /\ phase = "compile"
    /\ last = NoCall

\* ServiceSpec.compile on the service; the compiler registers the spec it
\* gets in the scope.
Compile(n) ==
    /\ phase = "compile"
    /\ n \notin DOMAIN service_specs
    /\ LET r == ServiceSpec_compile(schema[n])
       IN /\ service_specs' =
                IF r.err # None THEN service_specs
                ELSE [m \in DOMAIN service_specs \cup {n} |->
                         IF m = n THEN r.spec ELSE service_specs[m]]
          /\ last' = [op |-> "ServiceSpec.compile", target |-> n,
                      err |-> r.err, built |-> r.built]
    /\ UNCHANGED <<schema, func, phase>>

\* FunctionSpec.compile on func, as a function of service n.
CompileFunction(n) ==
    /\ phase = "compile"
    /\ LET r == FunctionSpec_compile(func, n)
       IN last' = [op |-> "FunctionSpec.compile", target |-> n,
                   err |-> r.err, spec |-> r.spec]
    /\ UNCHANGED <<schema, func, service_specs, phase>>

NextCompile ==
    \/ \E n \in DOMAIN schema : Compile(n)
    \/ \E n \in DOMAIN schema : CompileFunction(n)

SpecCompile == InitCompile /\ [][NextCompile]_vars

(***************************************************************************)
(* Properties of the link pass.                                            *)
(***************************************************************************)
\* The latest call was ServiceSpec.link on n, and n was not linked before.
Linking(n) ==
    /\ last.op = "ServiceSpec.link"
    /\ last.target = n
    /\ ~last.was_linked

\* The declared parent of n names no ServiceSpec of the scope.
UnknownParent(n) ==
    /\ schema[n].parent # None
    /\ schema[n].parent \notin DOMAIN service_specs

\* C1: ServiceSpec.link on a service whose declared parent name is not a key
\* of scope.service_specs raises the unknown-reference error, and such a
\* service never has a surface.
C1_UnknownParentFails ==
    \A n \in DOMAIN service_specs :
        UnknownParent(n) =>
            /\ service_specs[n].surface = NoneObj
            /\ Linking(n) => last.err = "UnknownReference"

C1_Witness ==
    \E n \in DOMAIN service_specs :
        /\ UnknownParent(n)
        /\ Linking(n)
        /\ last.err = "UnknownReference"
        /\ service_specs[n].linked

\* C2: a link call on a ServiceSpec or FunctionSpec that is already linked
\* returns normally, changes no field of any spec, and gives back the spec
\* with the surface it had before the call.
C2_RelinkIsNoOp ==
    (last.op \in {"ServiceSpec.link", "FunctionSpec.link"} /\ last.was_linked)
        => /\ last.err = None
           /\ ~last.changed
           /\ last.returned.surface = last.surface_before
           /\ last.returned.linked

C2_Witness ==
    /\ last.op = "ServiceSpec.link"
    /\ last.was_linked
    /\ last.surface_before # NoneObj
    /\ service_specs[last.target].parent # NoneObj
    /\ last.returned = service_specs[last.target]

\* The services on the parent chain of n, n first, as the schema declares
\* them; defined when the chain ends in a service without a parent.
RECURSIVE chain(_)
chain(n) ==
    IF schema[n].parent = None THEN <<n>> ELSE <<n>> \o chain(schema[n].parent)

own_names(n) == { schema[n].functions[i].name : i \in 1..Len(schema[n].functions) }

\* The function names of n and of every service on its parent chain.
chain_names(n) == UNION { own_names(chain(n)[k]) : k \in 1..Len(chain(n)) }

\* The service closest to n on its parent chain that defines a function
\* called name.
definer(n, name) ==
    LET c == chain(n)
        k == CHOOSE k \in 1..Len(c) :
                /\ name \in own_names(c[k])
                /\ \A j \in 1..(k - 1) : name \notin own_names(c[j])
    IN c[k]

\* Every attribute name a service class of the model can have.
AttrNames ==
    {"service_spec", "__slots__"}
        \cup UNION { own_names(n) : n \in DOMAIN schema }

\* The names under which a ServiceFunction is found on a service class.
reachable(cls) ==
    { a \in AttrNames : getattr(cls, a).kind = "ServiceFunction" }

\* The function called name of service m, as found on a class.
IsFunctionOf(fn, m, name) ==
    /\ fn.kind = "ServiceFunction"
    /\ fn.name = name
    /\ fn.request.name = args_name(m, name)
    /\ fn.response.name = result_name(m, name)

\* C3: on the surface of a linked service the reachable function names are
\* exactly its own and those of its parent chain, and each name yields the
\* function of the closest service of the chain that defines it.
C3_SurfaceIsChainUnion ==
    \A n \in DOMAIN service_specs :
        service_specs[n].surface # NoneObj =>
            /\ reachable(service_specs[n].surface) = chain_names(n)
            /\ \A name \in chain_names(n) :
                  IsFunctionOf(getattr(service_specs[n].surface, name),
                               definer(n, name), name)

\* The same for every function name but the attribute names service_cls
\* sets itself.
SurfaceIsChainUnionButReserved ==
    \A n \in DOMAIN service_specs :
        service_specs[n].surface # NoneObj =>
            /\ reachable(service_specs[n].surface)
                  = chain_names(n) \ {"service_spec", "__slots__"}
            /\ \A name \in chain_names(n) \ {"service_spec", "__slots__"} :
                  IsFunctionOf(getattr(service_specs[n].surface, name),
                               definer(n, name), name)

\* The services reached from n by following declared parents k times or
\* fewer, at least once.
RECURSIVE ancestors(_, _)
ancestors(n, k) ==
    IF k = 0 \/ schema[n].parent \notin DOMAIN service_specs THEN {}
    ELSE {schema[n].parent} \cup ancestors(schema[n].parent, k - 1)

in_cycle(n) == n \in ancestors(n, NumServices)

\* C4: a service on a cycle of parent references never gets a surface, and
\* the call that links it ends with an error.
C4_CycleRejected ==
    \A n \in DOMAIN service_specs :
        in_cycle(n) =>
            /\ service_specs[n].surface = NoneObj
            /\ Linking(n) => last.err # None

C4_Witness ==
    \E n \in DOMAIN service_specs :
        /\ in_cycle(n)
        /\ schema[n].parent # n
        /\ Linking(n)
        /\ last.err = "TypeError"
        /\ service_specs[n].linked

\* The scope as the compile pass leaves it, and after link has been called
\* on its services in the order of AllServiceNames.
compiled == [n \in ServiceNames |-> ServiceSpec_compile(schema[n]).spec]

RECURSIVE link_in_order(_, _)
link_in_order(specs, i) ==
    IF i > NumServices THEN specs
    ELSE link_in_order(ServiceSpec_link(specs, AllServiceNames[i]).specs, i + 1)

outcome(specs, n) ==
    [ has_surface |-> specs[n].surface # NoneObj,
      parent |-> specs[n].parent,
      functions |-> IF specs[n].surface = NoneObj THEN {}
                    ELSE reachable(specs[n].surface) ]

\* C9: once link has been called on every service, each service is in the
\* state that calling link in the order of AllServiceNames leaves it in:
\* linked with a surface or not, the same parent, the same functions.
C9_OrderIndependent ==
    (\A n \in DOMAIN service_specs : service_specs[n].linked) =>
        \A n \in DOMAIN service_specs :
            outcome(service_specs, n) = outcome(link_in_order(compiled, 1), n)

\* The part of it that concerns surfaces: whether a service has one, and
\* the surface itself.
SurfacesOrderIndependent ==
    (\A n \in DOMAIN service_specs : service_specs[n].linked) =>
        \A n \in DOMAIN service_specs :
            service_specs[n].surface = link_in_order(compiled, 1)[n].surface

\* C10: a linked ServiceSpec or FunctionSpec has a surface, and the parent
\* of a linked ServiceSpec is None or a linked ServiceSpec; a link call on a
\* ServiceSpec that was linked already does not return normally with the
\* surface still None.
C10_LinkedHasSurface ==
    /\ (last.op = "ServiceSpec.link" /\ last.was_linked /\ last.err = None)
          => last.returned.surface # NoneObj
    /\ \A n \in DOMAIN service_specs :
        /\ service_specs[n].linked =>
              /\ service_specs[n].surface # NoneObj
              /\ \/ service_specs[n].parent = NoneObj
                 \/ /\ service_specs[n].parent.kind = "spec"
                    /\ service_specs[service_specs[n].parent.name].linked
        /\ \A i \in 1..Len(service_specs[n].functions) :
              service_specs[n].functions[i].linked =>
                  service_specs[n].functions[i].surface # NoneObj

(***************************************************************************)
(* Properties of the compile pass.                                         *)
(***************************************************************************)
CompiledFunction == last.op = "FunctionSpec.compile" /\ last.err = None

\* C5: the result union of a compiled function allows zero fields set
\* exactly when the function has no return type.
C5_AllowEmptyIffVoid ==
    CompiledFunction =>
        (last.spec.result_spec.allow_empty <=> func.return_type = None)

\* C6: the result union is named {service}_{function}_response; its fields
\* are the success field (id 0, the return type) when there is a return
\* type, then one field per exception, in order, with the exception's id
\* and name.
C6_ResultFields ==
    CompiledFunction =>
        LET fields == last.spec.result_spec.fields
            off == IF func.return_type # None THEN 1 ELSE 0
        IN /\ last.spec.result_spec.name = result_name(last.target, func.name)
           /\ Len(fields) = off + Len(func.exceptions)
           /\ func.return_type # None =>
                 /\ fields[1].id = 0
                 /\ fields[1].name = "success"
                 /\ fields[1].spec = type_spec_or_ref(func.return_type)
           /\ \A i \in 1..Len(func.exceptions) :
                 /\ fields[off + i].id = func.exceptions[i].id
                 /\ fields[off + i].name = func.exceptions[i].name
           /\ func.return_type = None =>
                 \A i \in 1..Len(fields) :
                     ~(fields[i].id = 0 /\ fields[i].name = "success")

C6_Witness ==
    /\ CompiledFunction
    /\ func.return_type # None
    /\ Len(func.exceptions) = 2
    /\ func.exceptions[1].id > func.exceptions[2].id
    /\ Len(last.spec.result_spec.fields) = 3

\* Some name occurs twice in the function list fs.
has_duplicate(fs) ==
    \E i, j \in 1..Len(fs) : i < j /\ fs[i].name = fs[j].name

\* The first position of fs whose name occurs at an earlier position.
first_repeat(fs) ==
    CHOOSE j \in 1..Len(fs) :
        /\ \E i \in 1..(j - 1) : fs[i].name = fs[j].name
        /\ \A k \in 1..(j - 1) : \A i \in 1..(k - 1) : fs[i].name # fs[k].name

CompiledService(n) == last.op = "ServiceSpec.compile" /\ last.target = n

\* C7 as stated: compiling a service with two functions of the same name
\* raises the duplicate-name error; no spec is returned and nothing is
\* linked.
C7_DuplicateNameError ==
    \A n \in DOMAIN schema :
        (CompiledService(n) /\ has_duplicate(schema[n].functions)) =>
            /\ last.err = "DuplicateName"
            /\ n \notin DOMAIN service_specs
            /\ phase = "compile"
            /\ \A i \in 1..Len(last.built) : ~last.built[i].linked

\* C7 as the code has it: the error is the duplicate-name error when no
\* function before the first repeated name is oneway, and the
\* oneway-unsupported error otherwise.
C7_DuplicateOrOneway ==
    \A n \in DOMAIN schema :
        (CompiledService(n) /\ has_duplicate(schema[n].functions)) =>
            LET fs == schema[n].functions
                oneway_first == \E i \in 1..(first_repeat(fs) - 1) : fs[i].oneway
            IN /\ last.err = IF oneway_first THEN "OnewayUnsupported"
                                             ELSE "DuplicateName"
               /\ n \notin DOMAIN service_specs
               /\ phase = "compile"
               /\ \A i \in 1..Len(last.built) :
                     ~last.built[i].linked /\ last.built[i].surface = NoneObj

C7_Witness ==
    \E n \in DOMAIN schema :
        /\ CompiledService(n)
        /\ has_duplicate(schema[n].functions)
        /\ last.err = "DuplicateName"
        /\ Len(last.built) = 1

\* C8: FunctionSpec.compile on a oneway function raises the oneway error
\* and builds nothing, and no ServiceSpec of the scope has a FunctionSpec
\* for a oneway function.
C8_OnewayRejected ==
    /\ (last.op = "FunctionSpec.compile" /\ func.oneway) =>
          (last.err = "OnewayUnsupported" /\ last.spec = NoneObj)
    /\ \A n \in DOMAIN service_specs :
          /\ Len(service_specs[n].functions) = Len(schema[n].functions)
          /\ \A i \in 1..Len(schema[n].functions) :
                /\ ~schema[n].functions[i].oneway
                /\ service_specs[n].functions[i].name = schema[n].functions[i].name

C8_Witness ==
    /\ last.op = "FunctionSpec.compile"
    /\ func.oneway
    /\ last.err = "OnewayUnsupported"

====
